---- MODULE Spec2Model ----
(***************************************************************************)
(* Heading extraction of adobe_hackathon_round1a/main.py:                  *)
(*   is_heading_candidate  - the per-line classifier,                      *)
(*   detect_headings       - line aggregation, level clustering, title,    *)
(*                           outline assembly and sort,                    *)
(*   process_all_pdfs      - the batch driver with its per-file try/except.*)
(*                                                                         *)
(* Representation.                                                         *)
(*  - A text is a sequence of pieces. A piece is an atom of characters:    *)
(*    a word ("Intro", "INTRO", "2024"), a colon, one blank, or a URL      *)
(*    scheme ("http://", "https://", "www.").  Adjacent non-blank pieces   *)
(*    form one whitespace-delimited token.                                 *)
(*  - A font size is an integer number of half points, Pt(n) being n       *)
(*    points, so that the mean of one or two whole-point span sizes is     *)
(*    exact.                                                               *)
(*  - An optional value is a sequence of length 0 (None) or 1.             *)
(***************************************************************************)
EXTENDS Integers, Sequences, FiniteSets, TLC

VARIABLES
    pc,                 \* position of the running code
    call,               \* arguments and result of the latest is_heading_candidate call
    page_num,           \* detect_headings: enumerate(doc, start=1)
    prev_font_size,     \* detect_headings: local of line 35
    heading_candidates, \* detect_headings: local of line 34
    result,             \* detect_headings: the returned dict
    doc,                \* the lines the parser has yielded for the open document
    listing,            \* process_all_pdfs: os.listdir(input_dir)
    idx,                \* process_all_pdfs: position of the loop in listing
    outdir,             \* the output directory: file name -> content
    stdout,             \* what print has written
    stderr,             \* what was written to sys.stderr
    exc,                \* the exception being handled, if any
    done                \* the files the loop is through with, and how each ended

vars == <<pc, call, page_num, prev_font_size, heading_candidates, result, doc,
          listing, idx, outdir, stdout, stderr, exc, done>>

detectVars == <<page_num, prev_font_size, heading_candidates, result, doc>>
batchVars == <<listing, idx, outdir, stdout, stderr, exc, done>>

----------------------------------------------------------------------------
(* Values *)

None == <<>>
Some(v) == <<v>>

\* n points, in the model's unit of half a point
Pt(n) == 2 * n

Space == " "
Colon == ":"
Words == {"Intro", "INTRO", "2024"}
Schemes == {"http://", "https://", "www."}
Pieces == Words \cup Schemes \cup {Space, Colon}

\* program constants
BoldWeight == 600
ShortTokens == 8
ScoreThreshold == 3
TopSizes == 3

\* bounds of the enumerated inputs
MaxPieces == 3
MaxLines == 4
MaxPages == 2
MaxFiles == 2
MaxBatchLines == 2

----------------------------------------------------------------------------
(* Text primitives: str.upper, str.strip, str.split, str.endswith, re.match *)

UpperPiece(p) ==
    CASE p = "Intro" -> "INTRO"
      [] p = "http://" -> "HTTP://"
      [] p = "https://" -> "HTTPS://"
      [] p = "www." -> "WWW."
      [] OTHER -> p

Upper(text) == [i \in 1..Len(text) |-> UpperPiece(text[i])]

RECURSIVE LStrip(_)
LStrip(text) ==
    IF text # <<>> /\ Head(text) = Space THEN LStrip(Tail(text)) ELSE text

RECURSIVE RStrip(_)
RStrip(text) ==
    IF text # <<>> /\ text[Len(text)] = Space
    THEN RStrip(SubSeq(text, 1, Len(text) - 1))
    ELSE text

Strip(text) == RStrip(LStrip(text))

\* length of the leading run of non-blank pieces
Run(text) ==
    IF \E i \in 1..Len(text) : text[i] = Space
    THEN (CHOOSE i \in 1..Len(text) :
            text[i] = Space /\ \A j \in 1..(i - 1) : text[j] # Space) - 1
    ELSE Len(text)

\* text.split(): the whitespace-delimited tokens, in order
RECURSIVE Split(_)
Split(text) ==
    IF text = <<>> THEN <<>>
    ELSE IF Head(text) = Space THEN Split(Tail(text))
    ELSE <<SubSeq(text, 1, Run(text))>>
         \o Split(SubSeq(text, Run(text) + 1, Len(text)))

EndsWithColon(text) == text # <<>> /\ text[Len(text)] = Colon

\* re.match(r'https?://\S+|www\.\S+', text): anchored at the start, the
\* scheme followed by at least one non-blank character
ReMatchUrl(text) ==
    /\ Len(text) >= 2
    /\ text[1] \in Schemes
    /\ text[2] # Space

----------------------------------------------------------------------------
(* is_heading_candidate, lines 6-30 *)

\* `prev_font_size and ...`: None and 0 are both falsy
Truthy(opt) == opt # None /\ opt[1] # 0

Score(text, font_size, is_bold, prev) ==
    LET is_all_caps == text = Upper(text)
        ends_with_colon == EndsWithColon(Strip(text))
        is_short == Len(Split(text)) <= ShortTokens
    IN  (IF is_bold THEN 2 ELSE 0)
      + (IF is_all_caps THEN 1 ELSE 0)
      + (IF ends_with_colon THEN 1 ELSE 0)
      + (IF is_short THEN 1 ELSE 0)
      + (IF font_size > Pt(12) THEN 1 ELSE 0)
      + (IF Truthy(prev) /\ font_size > prev[1] + Pt(2) THEN 2 ELSE 0)

\* faulty variant: bold alone, or large alone, lets a short text through
ShortTextRejectedUnlessEither(text, font_size, is_bold) ==
    Len(Split(text)) < 2 /\ ~(is_bold \/ font_size > Pt(14))

ShortTextRejected(text, font_size, is_bold) ==
    Len(Split(text)) < 2 /\ ~(is_bold /\ font_size > Pt(14))

\* faulty variant: the threshold itself does not pass
AcceptsAbove(score) == score > ScoreThreshold

Accepts(score) == score >= ScoreThreshold

is_heading_candidate(text, font_size, is_bold, prev) ==
    IF ReMatchUrl(text) THEN FALSE
    ELSE IF ShortTextRejected(text, font_size, is_bold) THEN FALSE
    ELSE Accepts(Score(text, font_size, is_bold, prev))

NoCall == [text |-> <<>>, font_size |-> 0, is_bold |-> FALSE,
           prev_font_size |-> None, returned |-> FALSE, ret |-> FALSE]

Called(text, font_size, is_bold, prev) ==
    [text |-> text, font_size |-> font_size, is_bold |-> is_bold,
     prev_font_size |-> prev, returned |-> TRUE,
     ret |-> is_heading_candidate(text, font_size, is_bold, prev)]

----------------------------------------------------------------------------
(* The classifier on its own: every input of the enumerated sets *)

RECURSIVE SeqsUpTo(_, _)
SeqsUpTo(S, n) ==
    IF n = 0 THEN {<<>>}
    ELSE LET shorter == SeqsUpTo(S, n - 1)
         IN  shorter \cup {Append(s, x) : s \in shorter, x \in S}

RECURSIVE Repeat(_, _)
Repeat(s, n) == IF n = 0 THEN <<>> ELSE s \o Repeat(s, n - 1)

ShortTexts == SeqsUpTo(Pieces, MaxPieces)

\* a text followed by n more tokens
Padded(text, w, n) == text \o Repeat(<<Space, w>>, n)

\* the short texts, and each of them made longer by two tokens and by as
\* many tokens as pass the is_short limit
Texts ==
    ShortTexts \cup {Padded(t, w, n) : t \in ShortTexts, w \in {"Intro", "INTRO"},
                                        n \in {2, ShortTokens}}

FontSizes == {Pt(10), Pt(12), Pt(13), Pt(14), Pt(16)}
PrevSizes == {None, Some(Pt(10)), Some(Pt(12))}

Idle ==
    /\ page_num = 0
    /\ prev_font_size = None
    /\ heading_candidates = <<>>
    /\ result = None
    /\ doc = <<>>
    /\ listing = <<>>
    /\ idx = 0
    /\ outdir = [n \in {} |-> None]
    /\ stdout = <<>>
    /\ stderr = <<>>
    /\ exc = None
    /\ done = <<>>

InitClassify ==
    /\ pc = "classify"
    /\ call \in [text : Texts, font_size : FontSizes, is_bold : BOOLEAN,
                 prev_font_size : PrevSizes, returned : {FALSE}, ret : {FALSE}]
    /\ Idle

Classify ==
    /\ pc = "classify"
    /\ call' = Called(call.text, call.font_size, call.is_bold, call.prev_font_size)
    /\ pc' = "classified"
    /\ UNCHANGED <<detectVars, batchVars>>

NextClassify == Classify

SpecClassify == InitClassify /\ [][NextClassify]_vars

----------------------------------------------------------------------------
(* detect_headings, lines 32-108 *)

Span(text, size, weight) == [text |-> text, size |-> size, weight |-> weight]

RECURSIVE SpanText(_)
\* text += span["text"] over the spans of a line (lines 42, 46)
SpanText(line) ==
    IF line = <<>> THEN <<>> ELSE Head(line).text \o SpanText(Tail(line))

RECURSIVE Sum(_)
Sum(sizes) == IF sizes = <<>> THEN 0 ELSE Head(sizes) + Sum(Tail(sizes))

\* sum(font_sizes) / len(font_sizes), line 55
Avg(line) == Sum([i \in 1..Len(line) |-> line[i].size]) \div Len(line)

\* "weight" in span and span["weight"] >= 600, lines 44-49
IsBold(line) ==
    \E i \in 1..Len(line) :
        line[i].weight # None /\ line[i].weight[1] >= BoldWeight

Candidate(text, size, page, bold) ==
    [text |-> text, size |-> size, page |-> page, bold |-> bold]

\* faulty variant: the size outlives the call, as a module-level name would
StartPrevCarried(carried) == carried

\* prev_font_size = None, line 35; `carried` is what the name held before
StartPrev(carried) == None

\* faulty variant: only an accepted line becomes the previous line
NextPrevOfAccepted(prev, avg, accepted) == IF accepted THEN Some(avg) ELSE prev

\* prev_font_size = avg_font_size, line 64, run for every line that has text
NextPrev(prev, avg, accepted) == Some(avg)

SetMax(S) == CHOOSE x \in S : \A y \in S : y <= x

SetMin(S) == CHOOSE x \in S : \A y \in S : x <= y

RECURSIVE SortedAsc(_)
\* faulty variant: sorted without reverse=True
SortedAsc(S) ==
    IF S = {} THEN <<>> ELSE <<SetMin(S)>> \o SortedAsc(S \ {SetMin(S)})

RECURSIVE SortedDesc(_)
\* sorted(list(set(sizes)), reverse=True), line 71
SortedDesc(S) ==
    IF S = {} THEN <<>> ELSE <<SetMax(S)>> \o SortedDesc(S \ {SetMax(S)})

UniqueSizes(cands) == SortedDesc({cands[i].size : i \in 1..Len(cands)})

\* f"H{i+1}", line 76
LevelName(i) == CASE i = 1 -> "H1" [] i = 2 -> "H2" [] i = 3 -> "H3" [] OTHER -> "H?"

\* the order of the level labels as strings: they differ in the digit only
LevelOrd(level) == CASE level = "H1" -> 1 [] level = "H2" -> 2 [] level = "H3" -> 3 [] OTHER -> 4

\* unique_sizes[:3], line 75
Top(unique_sizes) ==
    SubSeq(unique_sizes, 1, IF Len(unique_sizes) < TopSizes THEN Len(unique_sizes) ELSE TopSizes)

\* size_to_level.get(size, None), lines 74-76 and 91
SizeToLevel(unique_sizes, size) ==
    LET top == Top(unique_sizes)
    IN  IF \E i \in 1..Len(top) : top[i] = size
        THEN Some(LevelName(CHOOSE i \in 1..Len(top) : top[i] = size))
        ELSE None

\* faulty variant: the last candidate of the largest size
TitleLast(cands) ==
    LET unique_sizes == SortedDesc({cands[i].size : i \in 1..Len(cands)})
        potential_titles == SelectSeq(cands, LAMBDA c : c.size = unique_sizes[1])
    IN  IF unique_sizes # <<>> /\ potential_titles # <<>>
        THEN potential_titles[Len(potential_titles)].text
        ELSE <<>>

\* lines 79-87: the text of the first candidate of the largest size
Title(cands) ==
    LET unique_sizes == UniqueSizes(cands)
        potential_titles == SelectSeq(cands, LAMBDA c : c.size = unique_sizes[1])
    IN  IF unique_sizes # <<>> /\ potential_titles # <<>>
        THEN potential_titles[1].text
        ELSE <<>>

\* faulty variant: the title's text is skipped at every level
IsTitleAgainAnyLevel(text, level, title) == text = title

\* line 96: the candidate is the title appearing again
IsTitleAgain(text, level, title) == text = title /\ level = "H1"

RECURSIVE Assemble(_, _, _)
\* lines 90-103: the outline before the sort
Assemble(cands, unique_sizes, title) ==
    IF cands = <<>> THEN <<>>
    ELSE LET c == Head(cands)
             level == SizeToLevel(unique_sizes, c.size)
             rest == Assemble(Tail(cands), unique_sizes, title)
         IN  IF level = None THEN rest
             ELSE IF IsTitleAgain(c.text, level[1], title) THEN rest
             ELSE <<[level |-> level[1], text |-> c.text, page |-> c.page]>> \o rest

\* faulty variant: key=lambda x: x["page"]
KeyLessByPage(a, b) == a.page < b.page

\* key=lambda x: (x["level"], x["page"]), compared as tuples
KeyLess(a, b) ==
    \/ LevelOrd(a.level) < LevelOrd(b.level)
    \/ a.level = b.level /\ a.page < b.page

\* e goes behind every entry whose key is not greater than its own
Insert(sorted, e) ==
    LET k == Cardinality({i \in 1..Len(sorted) : ~KeyLess(e, sorted[i])})
    IN  SubSeq(sorted, 1, k) \o <<e>> \o SubSeq(sorted, k + 1, Len(sorted))

RECURSIVE SortFrom(_, _)
SortFrom(sorted, entries) ==
    IF entries = <<>> THEN sorted
    ELSE SortFrom(Insert(sorted, Head(entries)), Tail(entries))

\* outline.sort(key=...), line 106: list.sort is stable
Sort(entries) == SortFrom(<<>>, entries)

\* lines 66-108
BuildResult(cands) ==
    IF cands = <<>>
    THEN [title |-> <<>>, outline |-> <<>>]
    ELSE [title |-> Title(cands),
          outline |-> Sort(Assemble(cands, UniqueSizes(cands), Title(cands)))]

(* the lines the parser may yield *)
TA == <<"Intro", Space, "2024">>
TB == <<"INTRO", Space, "2024">>
TC == <<"Intro", Space, "Intro">>

DocLines == {
    <<Span(TA, Pt(18), Some(700))>>,
    <<Span(TA, Pt(16), Some(700))>>,
    <<Span(<<"Intro">>, Pt(12), None), Span(<<Space, "2024", Space>>, Pt(16), Some(700))>>,
    <<Span(TA, Pt(10), Some(700))>>,
    <<Span(TB, Pt(16), Some(600))>>,
    <<Span(<<Space>>, Pt(30), None)>>,
    <<Span(TC, Pt(14), Some(400))>> }

----------------------------------------------------------------------------
(* The steps of detect_headings *)

\* lines 33-35
Open ==
    /\ pc = "open"
    /\ heading_candidates' = <<>>
    /\ prev_font_size' = StartPrev(prev_font_size)
    /\ page_num' = 1
    /\ doc' = <<>>
    /\ result' = None
    /\ call' = NoCall
    /\ pc' = "lines"
    /\ UNCHANGED batchVars

\* one more page of the document, line 37
NextPage ==
    /\ pc = "lines"
    /\ page_num < MaxPages
    /\ page_num' = page_num + 1
    /\ UNCHANGED <<pc, call, prev_font_size, heading_candidates, result, doc, batchVars>>

\* one line of a text block, lines 41-64
ReadLine(line, limit) ==
    /\ pc = "lines"
    /\ Len(doc) < limit
    /\ doc' = Append(doc, [line |-> line, page |-> page_num])
    /\ LET text == Strip(SpanText(line))
           avg_font_size == Avg(line)
           is_bold == IsBold(line)
           c == Called(text, avg_font_size, is_bold, prev_font_size)
       IN  IF text = <<>>
           THEN UNCHANGED <<call, heading_candidates, prev_font_size>>
           ELSE /\ call' = c
                /\ heading_candidates' =
                     IF c.ret
                     THEN Append(heading_candidates,
                                 Candidate(text, avg_font_size, page_num, is_bold))
                     ELSE heading_candidates
                /\ prev_font_size' = NextPrev(prev_font_size, avg_font_size, c.ret)
    /\ UNCHANGED <<pc, page_num, result, batchVars>>

\* lines 66-108
Return ==
    /\ pc = "lines"
    /\ result' = Some(BuildResult(heading_candidates))
    /\ pc' = "returned"
    /\ UNCHANGED <<call, page_num, prev_font_size, heading_candidates, doc, batchVars>>

InitDetect ==
    /\ pc = "open"
    /\ call = NoCall
    /\ Idle

NextDetect ==
    \/ Open
    \/ NextPage
    \/ \E line \in DocLines : ReadLine(line, MaxLines)
    \/ Return

SpecDetect == InitDetect /\ [][NextDetect]_vars

----------------------------------------------------------------------------
(* process_all_pdfs, lines 110-121 *)

File(stem, ext) == [stem |-> stem, ext |-> ext]

\* the names a directory may hold
Files == {File("a", ".pdf"), File("a", ".PDF"), File("b", ".pdf"), File("c", ".txt")}

LowerExt(ext) == IF ext = ".PDF" THEN ".pdf" ELSE ext

\* filename.lower().endswith(".pdf"), line 112
IsPdf(filename) == LowerExt(filename.ext) = ".pdf"

\* os.path.splitext(filename)[0] + ".json", line 116
OutputFilename(filename) == File(filename.stem, ".json")

OutputNames == {OutputFilename(f) : f \in {g \in Files : IsPdf(g)}}

\* os.listdir: the names of any subset of Files, each once, in any order
Listings == {l \in SeqsUpTo(Files, MaxFiles) : \A i, j \in 1..Len(l) : i # j => l[i] # l[j]}

\* faulty variant: the message leaves the file name out
ErrorMessageUnnamed(filename, e) == [file |-> File("", ""), error |-> e]

\* f"Error processing {filename}: {str(e)}", line 121
ErrorMessage(filename, e) == [file |-> filename, error |-> e]

\* what a file of the output directory holds: the dump of the result of
\* `from`, whole or cut short
Artifact(filename, whole) == [from |-> filename, whole |-> whole]

Outcome(filename, failed, error) ==
    [file |-> filename, failed |-> failed, error |-> error, lines |-> Len(doc)]

the_file == listing[idx]

\* line 111, a name that passes line 112: the try block is entered
NextFile ==
    /\ pc = "loop"
    /\ idx < Len(listing)
    /\ IsPdf(listing[idx + 1])
    /\ idx' = idx + 1
    /\ pc' = "open"
    /\ UNCHANGED <<call, detectVars, listing, outdir, stdout, stderr, exc, done>>

\* line 111, a name that fails line 112
SkipFile ==
    /\ pc = "loop"
    /\ idx < Len(listing)
    /\ ~IsPdf(listing[idx + 1])
    /\ idx' = idx + 1
    /\ UNCHANGED <<pc, call, detectVars, listing, outdir, stdout, stderr, exc, done>>

\* the listing is exhausted
Exit ==
    /\ pc = "loop"
    /\ idx = Len(listing)
    /\ pc' = "exit"
    /\ UNCHANGED <<call, detectVars, batchVars>>

\* line 115: fitz.open or page.get_text raises; the locals of
\* detect_headings are left as they were
DetectRaises ==
    /\ pc \in {"open", "lines"}
    /\ exc' = Some("FileDataError")
    /\ pc' = "except"
    /\ UNCHANGED <<call, detectVars, listing, idx, outdir, stdout, stderr, done>>

\* line 118: open(output_path, "w") creates or truncates the file
OpenOutput ==
    /\ pc = "returned"
    /\ outdir' = [outdir EXCEPT ![OutputFilename(the_file)] = Some(Artifact(the_file, FALSE))]
    /\ pc' = "dump"
    /\ UNCHANGED <<call, detectVars, listing, idx, stdout, stderr, exc, done>>

\* line 118 raises: nothing is created
OpenOutputRaises ==
    /\ pc = "returned"
    /\ exc' = Some("PermissionError")
    /\ pc' = "except"
    /\ UNCHANGED <<call, detectVars, listing, idx, outdir, stdout, stderr, done>>

\* line 119 and the end of the with block: the whole result is in the file
Dump ==
    /\ pc = "dump"
    /\ outdir' = [outdir EXCEPT ![OutputFilename(the_file)] = Some(Artifact(the_file, TRUE))]
    /\ done' = Append(done, Outcome(the_file, FALSE, None))
    /\ pc' = "loop"
    /\ UNCHANGED <<call, detectVars, listing, idx, stdout, stderr, exc>>

\* line 119 raises while writing (a lone surrogate in a text under
\* ensure_ascii=False, a full disk): the with block closes the file as it is
DumpRaises ==
    /\ pc = "dump"
    /\ exc' = Some("UnicodeEncodeError")
    /\ pc' = "except"
    /\ UNCHANGED <<call, detectVars, listing, idx, outdir, stdout, stderr, done>>

\* lines 120-121: print writes to sys.stdout
Handle ==
    /\ pc = "except"
    /\ stdout' = Append(stdout, ErrorMessage(the_file, exc[1]))
    /\ done' = Append(done, Outcome(the_file, TRUE, exc))
    /\ exc' = None
    /\ pc' = "loop"
    /\ UNCHANGED <<call, detectVars, listing, idx, outdir, stderr>>

BatchLines == {
    <<Span(TA, Pt(10), Some(700))>>,
    <<Span(TC, Pt(14), Some(400))>> }

Init ==
    /\ pc = "loop"
    /\ call = NoCall
    /\ page_num = 0
    /\ prev_font_size = None
    /\ heading_candidates = <<>>
    /\ result = None
    /\ doc = <<>>
    /\ listing \in Listings
    /\ idx = 0
    /\ outdir = [n \in OutputNames |-> None]
    /\ stdout = <<>>
    /\ stderr = <<>>
    /\ exc = None
    /\ done = <<>>

Next ==
    \/ NextFile
    \/ SkipFile
    \/ Exit
    \/ Open
    \/ NextPage
    \/ \E line \in BatchLines : ReadLine(line, MaxBatchLines)
    \/ Return
    \/ DetectRaises
    \/ OpenOutput
    \/ OpenOutputRaises
    \/ Dump
    \/ DumpRaises
    \/ Handle

Spec == Init /\ [][Next]_vars

----------------------------------------------------------------------------
(* Properties of is_heading_candidate, under SpecClassify *)

\* the number of whitespace-delimited tokens: the places where a token starts
TokenCount(text) ==
    Cardinality({i \in 1..Len(text) :
                   text[i] # Space /\ (i = 1 \/ text[i - 1] = Space)})

IsUpperCase(text) == \A i \in 1..Len(text) : UpperPiece(text[i]) = text[i]

\* the last piece that is not a blank is a colon
TrimmedEndsWithColon(text) ==
    \E i \in 1..Len(text) :
        text[i] = Colon /\ \A j \in (i + 1)..Len(text) : text[j] = Space

ShortRule(c) == TokenCount(c.text) < 2 /\ ~(c.is_bold /\ c.font_size > Pt(14))

StatedScore(c) ==
      (IF c.is_bold THEN 2 ELSE 0)
    + (IF IsUpperCase(c.text) THEN 1 ELSE 0)
    + (IF TrimmedEndsWithColon(c.text) THEN 1 ELSE 0)
    + (IF TokenCount(c.text) <= 8 THEN 1 ELSE 0)
    + (IF c.font_size > Pt(12) THEN 1 ELSE 0)
    + (IF c.prev_font_size # None /\ c.font_size > c.prev_font_size[1] + Pt(2)
       THEN 2 ELSE 0)

\* C1: a line that neither the URL rule nor the short-text rule rejects is
\* a candidate exactly when its score is at least 3, the score being 2 for
\* bold, 1 for text equal to its upper-case form, 1 for a trailing colon
\* after trimming, 1 for at most 8 tokens, 1 for a size above 12 and 2 for
\* a size more than 2 above a defined previous size.
C1_AcceptedIffScoreAtLeast3 ==
    (call.returned /\ ~ReMatchUrl(call.text) /\ ~ShortRule(call))
        => (call.ret <=> StatedScore(call) >= 3)

\* bold, size 16, 3 tokens, no trailing colon, previous size 10: score 6
C1_Witness ==
    /\ call.returned
    /\ call.is_bold
    /\ call.font_size = Pt(16)
    /\ TokenCount(call.text) = 3
    /\ ~TrimmedEndsWithColon(call.text)
    /\ ~IsUpperCase(call.text)
    /\ call.prev_font_size = Some(Pt(10))
    /\ StatedScore(call) = 6
    /\ call.ret

\* C2: a line of fewer than 2 tokens that is not both bold and larger than
\* 14 is never a candidate, whatever else holds of it; a single-token line
\* that is bold and larger than 14 is not rejected by this rule: unless it
\* is a URL, its score decides.
C2_ShortTextRejected ==
    call.returned =>
        /\ ShortRule(call) => ~call.ret
        /\ (/\ TokenCount(call.text) = 1
            /\ call.is_bold
            /\ call.font_size > Pt(14)
            /\ ~ReMatchUrl(call.text))
           => (call.ret <=> StatedScore(call) >= 3)

\* one upper-case token of size 16 after a line of size 10, not bold: the
\* score is 5 and the line is rejected all the same
C2_Witness ==
    /\ call.returned
    /\ TokenCount(call.text) = 1
    /\ ~call.is_bold
    /\ call.font_size = Pt(16)
    /\ call.prev_font_size = Some(Pt(10))
    /\ StatedScore(call) = 5
    /\ ~call.ret

----------------------------------------------------------------------------
(* Properties of detect_headings, under SpecDetect *)

Returned == pc = "returned"
TheTitle == result[1].title
TheOutline == result[1].outline

CandidateSizes == {heading_candidates[i].size : i \in 1..Len(heading_candidates)}

\* 1 for the largest distinct candidate size, 2 for the next one, ...
Rank(size) == 1 + Cardinality({z \in CandidateSizes : z > size})

Labels == <<"H1", "H2", "H3">>

\* the candidates of rank k with this text on this page, in document order
CandidatesAt(k, text, page) ==
    {i \in 1..Len(heading_candidates) :
        /\ Rank(heading_candidates[i].size) = k
        /\ heading_candidates[i].text = text
        /\ heading_candidates[i].page = page}

EntriesAt(level, text, page) ==
    {i \in 1..Len(TheOutline) :
        TheOutline[i] = [level |-> level, text |-> text, page |-> page]}

\* C3: the levels come from the distinct candidate sizes in descending
\* order, largest H1, then H2, then H3: every outline entry has one of these
\* labels and there are no more entries with a label, text and page than
\* candidates of that rank, text and page (below H1, where no entry is
\* suppressed, exactly as many), so a candidate of a size outside the top 3
\* has no entry.
C3_LevelsFromTopThreeSizes ==
    (Returned /\ heading_candidates # <<>>) =>
        /\ \A i \in 1..Len(TheOutline) :
              \E k \in 1..3 :
                 /\ TheOutline[i].level = Labels[k]
                 /\ k <= Cardinality(CandidateSizes)
                 /\ Cardinality(EntriesAt(Labels[k], TheOutline[i].text, TheOutline[i].page))
                      <= Cardinality(CandidatesAt(k, TheOutline[i].text, TheOutline[i].page))
        /\ \A i \in 1..Len(heading_candidates) :
              LET c == heading_candidates[i]
                  k == Rank(c.size)
              IN  k \in {2, 3} =>
                     Cardinality(EntriesAt(Labels[k], c.text, c.page))
                       = Cardinality(CandidatesAt(k, c.text, c.page))
        /\ Len(TheOutline)
             <= Cardinality({i \in 1..Len(heading_candidates) :
                               Rank(heading_candidates[i].size) <= 3})

\* four distinct candidate sizes: the second and third have their entries,
\* the fourth has none
C3_Witness ==
    /\ Returned
    /\ Cardinality(CandidateSizes) = 4
    /\ \E i \in 1..Len(TheOutline) : TheOutline[i].level = "H2"
    /\ \E i \in 1..Len(TheOutline) : TheOutline[i].level = "H3"
    /\ \E i \in 1..Len(heading_candidates) :
          /\ Rank(heading_candidates[i].size) = 4
          /\ \A e \in 1..Len(TheOutline) : TheOutline[e].page # heading_candidates[i].page

\* C4: the title is the text of the first candidate, in document order, of
\* the largest candidate size; without candidates the result is the empty
\* title and the empty outline.
C4_TitleIsFirstOfLargestSize ==
    Returned =>
        IF heading_candidates = <<>>
        THEN result[1] = [title |-> <<>>, outline |-> <<>>]
        ELSE \E i \in 1..Len(heading_candidates) :
                /\ Rank(heading_candidates[i].size) = 1
                /\ \A j \in 1..(i - 1) : Rank(heading_candidates[j].size) # 1
                /\ TheTitle = heading_candidates[i].text

\* a smaller candidate first, then two candidates of the largest size with
\* different texts
C4_Witness ==
    /\ Returned
    /\ Len(heading_candidates) >= 3
    /\ Rank(heading_candidates[1].size) > 1
    /\ \E i, j \in 1..Len(heading_candidates) :
          /\ i < j
          /\ Rank(heading_candidates[i].size) = 1
          /\ Rank(heading_candidates[j].size) = 1
          /\ heading_candidates[i].text # heading_candidates[j].text
          /\ TheTitle = heading_candidates[i].text
          /\ \A h \in 1..(i - 1) : Rank(heading_candidates[h].size) # 1

\* C5: a candidate is left out as the title again exactly when it is of the
\* H1 size and its text is the title: no H1 entry has the title's text (a
\* lone candidate leaves the outline empty), every candidate of the H1 size
\* with another text has its H1 entry, and every candidate of the H2 or H3
\* size has its entry, the title's text or not.
C5_OnlyH1TitleSuppressed ==
    (Returned /\ heading_candidates # <<>>) =>
        /\ \A e \in 1..Len(TheOutline) :
              TheOutline[e].level = "H1" => TheOutline[e].text # TheTitle
        /\ Len(heading_candidates) = 1 => TheOutline = <<>>
        /\ \A i \in 1..Len(heading_candidates) :
              LET c == heading_candidates[i]
                  k == Rank(c.size)
              IN  (k \in {2, 3} \/ (k = 1 /\ c.text # TheTitle)) =>
                     Cardinality(EntriesAt(Labels[k], c.text, c.page))
                       = Cardinality(CandidatesAt(k, c.text, c.page))

\* the title twice at the H1 size, another text at the H1 size, and the
\* title's text at the H2 size
C5_Witness ==
    /\ Returned
    /\ Cardinality({i \in 1..Len(heading_candidates) :
                      /\ Rank(heading_candidates[i].size) = 1
                      /\ heading_candidates[i].text = TheTitle}) = 2
    /\ \E e \in 1..Len(TheOutline) :
          TheOutline[e].level = "H1" /\ TheOutline[e].text # TheTitle
    /\ \E e \in 1..Len(TheOutline) :
          TheOutline[e].level = "H2" /\ TheOutline[e].text = TheTitle
    /\ Len(TheOutline) = 2

\* the candidates that have an entry of rank k on this page, in document order
RECURSIVE KeptAt(_, _, _)
KeptAt(cands, k, page) ==
    IF cands = <<>> THEN <<>>
    ELSE LET c == Head(cands)
         IN  (IF /\ Rank(c.size) = k
                 /\ c.page = page
                 /\ ~(k = 1 /\ c.text = TheTitle)
              THEN <<c.text>> ELSE <<>>) \o KeptAt(Tail(cands), k, page)

RECURSIVE TextsAt(_, _, _)
TextsAt(entries, level, page) ==
    IF entries = <<>> THEN <<>>
    ELSE (IF Head(entries).level = level /\ Head(entries).page = page
          THEN <<Head(entries).text>> ELSE <<>>) \o TextsAt(Tail(entries), level, page)

LabelIndex(level) == CHOOSE k \in 1..3 : Labels[k] = level

\* C6: the outline has its H1 entries first, then H2, then H3, each level in
\* ascending page order, and the entries of one level and page in the order
\* of their candidates in the document.
C6_OutlineSorted ==
    Returned =>
        /\ \A i, j \in 1..Len(TheOutline) :
              i < j =>
                 /\ LabelIndex(TheOutline[i].level) <= LabelIndex(TheOutline[j].level)
                 /\ TheOutline[i].level = TheOutline[j].level
                      => TheOutline[i].page <= TheOutline[j].page
        /\ \A k \in 1..3 : \A i \in 1..Len(heading_candidates) :
              LET page == heading_candidates[i].page
              IN  TextsAt(TheOutline, Labels[k], page) = KeptAt(heading_candidates, k, page)

\* a candidate of a lower level stands before one of a higher level in the
\* document, and two entries of one level and page differ in their text
C6_Witness ==
    /\ Returned
    /\ \E i, j \in 1..Len(heading_candidates) :
          /\ i < j
          /\ Rank(heading_candidates[i].size) = 3
          /\ Rank(heading_candidates[j].size) = 2
    /\ \E e \in 1..(Len(TheOutline) - 1) :
          /\ TheOutline[e].level = TheOutline[e + 1].level
          /\ TheOutline[e].page = TheOutline[e + 1].page
          /\ TheOutline[e].text # TheOutline[e + 1].text
    /\ \E e \in 1..Len(TheOutline) : TheOutline[e].page = 2

----------------------------------------------------------------------------
(* The previous font size the classifier receives, under SpecDetect *)

\* the text of the line is empty after trimming: it has blanks only
Blank(line) ==
    \A i \in 1..Len(line) : \A j \in 1..Len(line[i].text) : line[i].text[j] = Space

\* the latest classifier call was made for the last line read
CallForLastLine == call.returned /\ doc # <<>> /\ ~Blank(doc[Len(doc)].line)

\* C9, as stated: the previous font size a line is classified with is the
\* average size of the line right before it, blank lines included, and is
\* undefined for the first line of the document only.
C9_PrevIsImmediatelyPrecedingLine ==
    CallForLastLine =>
        call.prev_font_size =
            IF Len(doc) = 1 THEN None ELSE Some(Avg(doc[Len(doc) - 1].line))

\* the lines before the last one that have text
TextLinesBefore == {i \in 1..(Len(doc) - 1) : ~Blank(doc[i].line)}

\* C9, amended: the previous font size a line is classified with is the
\* average size of the nearest line before it whose trimmed text is not
\* empty, accepted as a candidate or not; it is undefined exactly when no
\* such line precedes it.
C9_PrevIsNearestLineWithText ==
    CallForLastLine =>
        call.prev_font_size =
            IF TextLinesBefore = {} THEN None
            ELSE Some(Avg(doc[SetMax(TextLinesBefore)].line))

\* a line that is no candidate, a blank line of another size, and a line
\* that is classified with the size of the first
C9_Witness ==
    /\ CallForLastLine
    /\ Len(doc) = 3
    /\ ~Blank(doc[1].line)
    /\ Blank(doc[2].line)
    /\ Avg(doc[2].line) # Avg(doc[1].line)
    /\ call.prev_font_size = Some(Avg(doc[1].line))
    /\ Len(heading_candidates) = 1
    /\ heading_candidates[1].text = call.text
    /\ heading_candidates[1].size = call.font_size

----------------------------------------------------------------------------
(* Properties of process_all_pdfs, under Spec *)

Exited == pc = "exit"

PdfsListed == {listing[i] : i \in {j \in 1..Len(listing) : IsPdf(listing[j])}}

Failed(f) == \E i \in 1..Len(done) : done[i].file = f /\ done[i].failed
Succeeded(f) == \E i \in 1..Len(done) : done[i].file = f /\ ~done[i].failed

\* C7: whichever PDF files fail, every other PDF file is still processed:
\* when the batch ends the output directory holds a JSON artifact for every
\* PDF file that did not fail and none for a PDF file that failed.
C7_FailedFilesLeaveNoArtifact ==
    Exited =>
        \A f \in PdfsListed :
            /\ Failed(f) \/ Succeeded(f)
            /\ Succeeded(f) =>
                  /\ outdir[OutputFilename(f)] # None
                  /\ outdir[OutputFilename(f)][1].whole
            /\ Failed(f) => outdir[OutputFilename(f)] = None

RECURSIVE Failures(_)
\* what is to be reported of the files that failed, in their order
Failures(outcomes) ==
    IF outcomes = <<>> THEN <<>>
    ELSE (IF Head(outcomes).failed
          THEN <<[file |-> Head(outcomes).file, error |-> Head(outcomes).error[1]]>>
          ELSE <<>>) \o Failures(Tail(outcomes))

\* C8, as stated: every failure has its message, with the file's name and
\* the error, on the standard error stream, and the standard output stream
\* has nothing of it.
C8_FailureReportedOnStderr ==
    /\ stderr = Failures(done)
    /\ stdout = <<>>

\* C8, amended: every failure has its message, with the file's name and the
\* error, on the standard output stream; the standard error stream has
\* nothing of it, and a file of the output directory holds the dump of a
\* result, whole or cut short, and no message.
C8_FailureReportedOnStdout ==
    /\ stdout = Failures(done)
    /\ stderr = <<>>
    /\ \A n \in OutputNames :
          outdir[n] # None => outdir[n][1] \in [from : PdfsListed, whole : BOOLEAN]

\* two files have failed, for different reasons, one after the other
C8_Witness ==
    /\ Len(stdout) = 2
    /\ stdout[1].file # stdout[2].file
    /\ stdout[1].error # stdout[2].error
    /\ Failed(stdout[1].file)
    /\ Failed(stdout[2].file)

RECURSIVE CandidatesOf(_, _)
\* the candidates of a document read on its own: its lines in order, the
\* first line with text classified without a previous size, every later one
\* with the size of the line with text before it
CandidatesOf(lines, prev) ==
    IF lines = <<>> THEN <<>>
    ELSE LET line == Head(lines).line
             text == Strip(SpanText(line))
         IN  IF text = <<>> THEN CandidatesOf(Tail(lines), prev)
             ELSE (IF is_heading_candidate(text, Avg(line), IsBold(line), prev)
                   THEN <<Candidate(text, Avg(line), Head(lines).page, IsBold(line))>>
                   ELSE <<>>)
                  \o CandidatesOf(Tail(lines), Some(Avg(line)))

\* C10: the title and outline produced for a document are those of the
\* document read on its own, whichever files the batch went through before
\* it and however they ended; the first line of a document is classified
\* without a previous font size.
C10_ResultOfDocumentAlone ==
    /\ pc \in {"returned", "dump"} =>
          result = Some(BuildResult(CandidatesOf(doc, None)))
    /\ (call.returned /\ Len(doc) = 1) => call.prev_font_size = None

\* the second document, after a first one that failed with a line read:
\* its only line would be a candidate after a line of size 10 and is none
C10_Witness ==
    /\ pc = "dump"
    /\ Len(done) = 1
    /\ done[1].failed
    /\ done[1].lines >= 1
    /\ Len(doc) = 1
    /\ call.returned
    /\ ~call.ret
    /\ is_heading_candidate(call.text, call.font_size, call.is_bold, Some(Pt(10)))
    /\ result[1].outline = <<>>

====
